---- MODULE Spec2Model ----
(***************************************************************************)
(* A model of yta_run_reports.py: the paginated Analytics fetch            *)
(* (run_report), the window computation and the per-report loop of main,   *)
(* and the CSV files it writes (save_csv).                                 *)
(*                                                                         *)
(* Three specifications share the module:                                  *)
(*   SpecFetch  one run_report call, one action per loop iteration;        *)
(*   Spec       one invocation of main, one action per report iteration;   *)
(*   SpecStore  repeated invocations of main over the same output files.   *)
(***************************************************************************)
EXTENDS Integers, Sequences, FiniteSets, TLC

(* ------------------------------------------------------------------ *)
(* Bounds of the model                                                  *)
(* ------------------------------------------------------------------ *)
MaxRemoteRows == 405      \* rows the remote holds for one run_report call
MaxCap == 3               \* explicit caps 1..MaxCap, besides the catalog's
MaxRuns == 2              \* invocations of main in SpecStore
MaxRows == 1              \* rows the remote holds for a day or aggregate query of main
MaxVideos == 1            \* rows the remote holds for the seed query of top_videos

(* ------------------------------------------------------------------ *)
(* Optional values: None is <<>>, a present value v is <<v>>            *)
(* ------------------------------------------------------------------ *)
None == << >>

Some(v) == << v >>

Min(a, b) == IF a <= b THEN a ELSE b

(* ------------------------------------------------------------------ *)
(* Config                                                               *)
(* ------------------------------------------------------------------ *)
MAX_RESULTS == 200

REPORTS ==
  [ day |-> [sort |-> Some("day"), maxres |-> None,
             dims |-> "day", prefix |-> "yta_daily_trend"],
    country |-> [sort |-> Some("-views"), maxres |-> Some(MAX_RESULTS),
                 dims |-> "country", prefix |-> "yta_country"],
    traffic_sources |-> [sort |-> Some("-views"), maxres |-> None,
                         dims |-> "insightTrafficSourceType",
                         prefix |-> "yta_traffic_sources"],
    top_videos |-> [sort |-> Some("-views"), maxres |-> Some(MAX_RESULTS),
                    dims |-> "video", prefix |-> "yta_top_videos"] ]

ReportKeys == DOMAIN REPORTS

(* ------------------------------------------------------------------ *)
(* Calendar dates.  A date is its proleptic Gregorian ordinal           *)
(* (date.toordinal()); isoformat() gives <<year, month, day>>, whose    *)
(* order as a tuple is the order of the YYYY-MM-DD strings.             *)
(* ------------------------------------------------------------------ *)
IsLeap(y) == (y % 4 = 0) /\ ((y % 100 # 0) \/ (y % 400 = 0))

DaysInMonth(y, m) ==
  IF m = 2 THEN (IF IsLeap(y) THEN 29 ELSE 28)
  ELSE IF m \in {4, 6, 9, 11} THEN 30 ELSE 31

RECURSIVE DaysBeforeMonth(_, _)
DaysBeforeMonth(y, m) ==
  IF m = 1 THEN 0 ELSE DaysBeforeMonth(y, m - 1) + DaysInMonth(y, m - 1)

DaysBeforeYear(y) ==
  LET p == y - 1 IN p * 365 + (p \div 4) - (p \div 100) + (p \div 400)

\* date(y, m, d): the ordinal of a calendar date
Date(y, m, d) == DaysBeforeYear(y) + DaysBeforeMonth(y, m) + d

\* date.isoformat(): ordinal -> <<y, m, d>>
IsoFormat(ord) ==
  LET n0   == ord - 1
      n400 == n0 \div 146097
      r400 == n0 % 146097
      n100 == r400 \div 36524
      r100 == r400 % 36524
      n4   == r100 \div 1461
      r4   == r100 % 1461
      n1   == r4 \div 365
      n    == r4 % 365
      year == n400 * 400 + 1 + n100 * 100 + n4 * 4 + n1
  IN  IF n1 = 4 \/ n100 = 4
        THEN << year - 1, 12, 31 >>
        ELSE LET est   == (n + 50) \div 32
                 month == IF DaysBeforeMonth(year, est) > n THEN est - 1 ELSE est
             IN  << year, month, n - DaysBeforeMonth(year, month) + 1 >>

\* datetime.fromisoformat(s).date(): <<y, m, d>> -> ordinal
FromIsoFormat(iso) == Date(iso[1], iso[2], iso[3])

(* ------------------------------------------------------------------ *)
(* State                                                                *)
(* ------------------------------------------------------------------ *)
VARIABLES
  \* one run_report call (SpecFetch)
  fpc,            \* "idle" | "loop" | "returned" | "raised"
  max_results,    \* the max_results argument: None or <<cap>>
  remote_n,       \* rows the remote holds for the query
  start_index,    \* run_report's start_index
  all_rows,       \* run_report's all_rows, as the remote's row numbers
  requests,       \* the (startIndex, maxResults) of each request issued
  \* main (Spec, SpecStore)
  pc,             \* "start" | "loop" | "done" | "crashed"
  runs,           \* invocations of main so far; the clock now_pacific_iso() reads
  run_limit,      \* invocations of main the specification allows
  today,          \* date.today()
  probe,          \* the response to latest_analytics_date's query
  ytd,            \* whether build_youtube_data_client() gave a client
  last_rec_date,  \* main's last_rec_date
  channel_start,  \* main's channel_start
  start_override, \* main's start_override: None or <<iso>>
  end_override,   \* main's end_override: None or <<iso>>
  keys,           \* main's keys
  idx,            \* position of `for key in keys` (1-based)
  files,          \* yta_outputs/<prefix>.csv by prefix: None or <<DataFrame>>
  history,        \* per report, what each iteration so far saved (history variable)
  queries,        \* run_report calls of the latest report iteration
  printed         \* what this invocation printed

fetchVars == << fpc, max_results, remote_n, start_index, all_rows, requests >>

mainVars == << pc, runs, run_limit, today, probe, ytd, last_rec_date, channel_start,
               start_override, end_override, keys, idx, files, history,
               queries, printed >>

vars == << fetchVars, mainVars >>

(* ------------------------------------------------------------------ *)
(* run_report                                                           *)
(* ------------------------------------------------------------------ *)
\* page_size = max_results or MAX_RESULTS   (None and 0 are both falsy)
PageSize(mr) == IF mr = None \/ mr[1] = 0 THEN MAX_RESULTS ELSE mr[1]

\* The remote reporting endpoint: of the n rows the query has, the rows
\* startIndex .. startIndex + maxResults - 1 that exist.
RemotePage(n, startIndex, maxResults) ==
  LET last == Min(n, startIndex + maxResults - 1)
  IN  IF last < startIndex THEN << >>
      ELSE [k \in 1..(last - startIndex + 1) |-> startIndex + k - 1]

\* reached_cap = max_results is not None and (start_index - 1) + len(rows) >= max_results
ReachedCapNever(mr, si, nrows) == FALSE

ReachedCap(mr, si, nrows) == mr # None /\ (si - 1) + nrows >= mr[1]

\* if len(rows) < page_size or reached_cap: break
LoopBreaksOnShortPageOnly(mr, si, nrows) == nrows < PageSize(mr)

LoopBreaks(mr, si, nrows) == nrows < PageSize(mr) \/ ReachedCap(mr, si, nrows)

\* start_index += page_size
NextStartIndexByRows(mr, si, nrows) == si + nrows + 1

NextStartIndex(mr, si, nrows) == si + PageSize(mr)

\* The caps a call is made with: none, the catalog's, the per-video cap 1,
\* and the small caps 1..MaxCap.
CapsUsed ==
  {None} \cup {REPORTS[k].maxres : k \in ReportKeys} \cup {Some(c) : c \in 1..MaxCap}

Prefixes == {REPORTS[k].prefix : k \in ReportKeys}

\* main before its first invocation: no output file exists
MainIdle ==
  /\ pc = "start"
  /\ runs = 0
  /\ today = 0
  /\ probe = [ok |-> FALSE, rows |-> << >>]
  /\ ytd = FALSE
  /\ last_rec_date = 0
  /\ channel_start = 0
  /\ start_override = None
  /\ end_override = None
  /\ keys = << >>
  /\ idx = 1
  /\ files = [f \in Prefixes |-> None]
  /\ history = [p \in Prefixes |-> << >>]
  /\ queries = << >>
  /\ printed = << >>

InitFetch ==
  /\ fpc = "idle"
  /\ max_results \in CapsUsed
  /\ remote_n \in 0..MaxRemoteRows
  /\ start_index = 0
  /\ all_rows = << >>
  /\ requests = << >>
  /\ MainIdle
  /\ run_limit = 0

\* run_report is entered: all_rows = [], start_index = 1
RunReportEnter ==
  /\ fpc = "idle"
  /\ fpc' = "loop"
  /\ start_index' = 1
  /\ all_rows' = << >>
  /\ requests' = << >>
  /\ UNCHANGED << max_results, remote_n >>
  /\ UNCHANGED mainVars

\* one iteration of `while True`, the request answered
RunReportPage ==
  /\ fpc = "loop"
  /\ LET page_size == PageSize(max_results)
         rows == RemotePage(remote_n, start_index, page_size)
     IN  /\ requests' = Append(requests, [startIndex |-> start_index, maxResults |-> page_size])
         /\ all_rows' = all_rows \o rows
         /\ IF LoopBreaks(max_results, start_index, Len(rows))
              THEN fpc' = "returned" /\ UNCHANGED start_index
              ELSE fpc' = "loop"
                   /\ start_index' = NextStartIndex(max_results, start_index, Len(rows))
  /\ UNCHANGED << max_results, remote_n >>
  /\ UNCHANGED mainVars

\* one iteration of `while True`, the request failing: execute() raises
RunReportRaise ==
  /\ fpc = "loop"
  /\ requests' = Append(requests, [startIndex |-> start_index, maxResults |-> PageSize(max_results)])
  /\ fpc' = "raised"
  /\ UNCHANGED << max_results, remote_n, start_index, all_rows >>
  /\ UNCHANGED mainVars

NextFetch == RunReportEnter \/ RunReportPage \/ RunReportRaise

SpecFetch == InitFetch /\ [][NextFetch]_vars

\* the loop body runs to its end once entered: the call is synchronous
SpecFetchFair == SpecFetch /\ WF_vars(NextFetch)

(* ------------------------------------------------------------------ *)
(* Small helpers of main                                                *)
(* ------------------------------------------------------------------ *)
\* Python's `a or b` for an optional a
Or(opt, default) == IF opt = None THEN default ELSE opt[1]

\* date(2025, 8, 28): the fixed fallback date
FallbackDate == Date(2025, 8, 28)

\* list(REPORTS.keys()): insertion order
CatalogOrder == << "day", "country", "traffic_sources", "top_videos" >>

\* now_pacific_iso(): the wall clock, which the model reads as the number
\* of the invocation
NowPacificIso == runs

\* df[name] = value: the column added (or overwritten) on every row
AddColumn(df, name, value) ==
  [columns |-> IF \E c \in DOMAIN df.columns : df.columns[c] = name
                 THEN df.columns ELSE Append(df.columns, name),
   rows    |-> [r \in DOMAIN df.rows |->
                  [c \in (DOMAIN df.rows[r]) \cup {name} |->
                     IF c = name THEN value ELSE df.rows[r][c]]]]

\* save_csv(df, prefix): yta_outputs/<prefix>.csv is overwritten with df
SaveCsv(fs, df, prefix) == [fs EXCEPT ![prefix] = Some(df)]

\* the `empty_cols` of main's except block
EmptyCols(key) ==
  CASE key = "country" ->
         << "country", "from_date_time", "to_date_time", "refresh_date" >>
    [] key = "traffic_sources" ->
         << "insightTrafficSourceType", "from_date_time", "to_date_time", "refresh_date" >>
    [] key = "top_videos" ->
         << "video", "from_date_time", "to_date_time", "refresh_date" >>
    [] key = "day" -> << "day", "refresh_date" >>
    [] OTHER -> << >>

\* pd.DataFrame(columns=empty_cols)
EmptyFrame(key) == [columns |-> EmptyCols(key), rows |-> << >>]

(* ------------------------------------------------------------------ *)
(* The remote endpoints as main sees them                               *)
(* ------------------------------------------------------------------ *)
\* What reports().query().execute() does for one run_report call: it raises,
\* or the query has n rows.
Responses == {[ok |-> FALSE, n |-> 0]} \cup {[ok |-> TRUE, n |-> n] : n \in 0..MaxRows}

\* The same for the seed query of top_videos.
SeedResponses == {[ok |-> FALSE, n |-> 0]} \cup {[ok |-> TRUE, n |-> n] : n \in 0..MaxVideos}

\* A query filtered to one video has at most one row.
VideoResponses == {[ok |-> FALSE, n |-> 0], [ok |-> TRUE, n |-> 0], [ok |-> TRUE, n |-> 1]}

\* The rows of a query: row k carries the k-th value of the dimension and
\* metrics aggregated over the window of the query.
RemoteRows(n, start, end) ==
  [k \in 1..n |-> [dim |-> k, metrics |-> << start, end >>]]

\* run_report's `while True` over a remote holding the rows `remote`
RECURSIVE RunReportLoop(_, _, _, _)
RunReportLoop(remote, mr, si, acc) ==
  LET numbers == RemotePage(Len(remote), si, PageSize(mr))
      rows    == [k \in DOMAIN numbers |-> remote[numbers[k]]]
      acc2    == acc \o rows
  IN  IF LoopBreaks(mr, si, Len(rows))
        THEN acc2
        ELSE RunReportLoop(remote, mr, NextStartIndex(mr, si, Len(rows)), acc2)

\* run_report(...): pd.DataFrame(all_rows, columns=columns)
RunReport(remote, dimensions, mr) ==
  [columns |-> << dimensions, "metrics" >>,
   rows    |-> RunReportLoop(remote, mr, 1, << >>)]

\* the arguments of one run_report call, as logged in `queries`
Query(kind, start, end, filters, mr) ==
  [kind |-> kind, startDate |-> start, endDate |-> end,
   filters |-> filters, max_results |-> mr]

(* ------------------------------------------------------------------ *)
(* main: setup (clients, latest day, lifetime start, overrides, keys)   *)
(* ------------------------------------------------------------------ *)
\* values of date.today(): days after the fallback date of the code, one of
\* them in March of a leap year
Todays == {Date(2025, 9, 2), Date(2028, 3, 12)}

\* responses to the probe of latest_analytics_date: a failure, no rows, or
\* the days up to two days before today
ProbeResponses(t) ==
  { [ok |-> FALSE, rows |-> << >>],
    [ok |-> TRUE,  rows |-> << >>],
    [ok |-> TRUE,  rows |-> << IsoFormat(t - 3), IsoFormat(t - 2) >>] }

\* latest_analytics_date(yta)
LatestAnalyticsDate(resp) ==
  IF ~resp.ok \/ resp.rows = << >>
    THEN None
    ELSE Some(FromIsoFormat(resp.rows[Len(resp.rows)]))

\* last_rec_date = latest_analytics_date(yta) or (date.today() - timedelta(days=3))
LastRecDate(resp, t) == Or(LatestAnalyticsDate(resp), t - 3)

\* what the Data API answers: None (an error, no items) or a date; a channel
\* is an old one or one created yesterday
ChannelCreatedAnswers(t) == {None, Some(Date(2023, 5, 1)), Some(t - 1)}

FirstVideoAnswers == {None, Some(Date(2023, 6, 15))}

VideoPublishedAnswers == {None, Some(Date(2024, 2, 20))}

\* get_channel_created_date(ytd), get_first_video_published_date(ytd)
GetChannelCreatedDate(client, answer) == IF ~client THEN None ELSE answer

GetFirstVideoPublishedDate(client, answer) == IF ~client THEN None ELSE answer

\* channel_start = created or first video or date(2025, 8, 28)
ChannelStart(client, created, first) ==
  Or(GetChannelCreatedDate(client, created),
     Or(GetFirstVideoPublishedDate(client, first), FallbackDate))

\* values of --start and of --end
StartArgs == {None, Some(<< 2024, 1, 1 >>), Some(<< 2024, 2, 1 >>)}

EndArgs == {None, Some(<< 2024, 1, 31 >>)}

\* start_override / end_override: set only when both arguments are given
Override(arg, a_start, a_end) ==
  IF a_start # None /\ a_end # None
    THEN Some(IsoFormat(FromIsoFormat(arg[1])))
    ELSE None

\* values of --reports: absent, or a list of names (argparse checks none)
ReportNames == ReportKeys \cup {"bogus"}

ReportArgs ==
  {None, Some(<< >>)}
    \cup {Some(<< k >>) : k \in ReportNames}
    \cup { Some(<< "top_videos", "day" >>),
           Some(<< "country", "country" >>),
           Some(<< "day", "bogus", "country" >>) }

\* keys = list(REPORTS.keys()) if not args.reports else args.reports
Keys(reports) ==
  IF reports = None \/ reports[1] = << >> THEN CatalogOrder ELSE reports[1]

\* main from its start to the head of `for key in keys`
Main_Setup(todays, startArgs, endArgs, reportArgs) ==
  /\ pc \in {"start", "done", "crashed"}
  /\ runs < run_limit
  /\ \E t \in todays, client \in BOOLEAN, first \in FirstVideoAnswers,
        a_start \in startArgs, a_end \in endArgs, reports \in reportArgs :
       \E resp \in ProbeResponses(t), created \in ChannelCreatedAnswers(t) :
         /\ today' = t
         /\ probe' = resp
         /\ ytd' = client
         /\ last_rec_date' = LastRecDate(resp, t)
         /\ channel_start' = ChannelStart(client, created, first)
         /\ start_override' = Override(a_start, a_start, a_end)
         /\ end_override' = Override(a_end, a_start, a_end)
         /\ keys' = Keys(reports)
  /\ runs' = runs + 1
  /\ idx' = 1
  /\ pc' = "loop"
  /\ queries' = << >>
  /\ printed' = << >>
  /\ UNCHANGED << run_limit, files, history >>
  /\ UNCHANGED fetchVars

(* ------------------------------------------------------------------ *)
(* main: one iteration of `for key in keys`                             *)
(* ------------------------------------------------------------------ *)
AtKey == pc = "loop" /\ idx <= Len(keys)

Saved(prefix, df) == [ev |-> "saved", what |-> prefix, n |-> Len(df.rows)]

Errored(key) == [ev |-> "error", what |-> key, n |-> 0]

\* the except block: the error is printed and an empty CSV is saved
OnErrorNoSave(fs, key) == fs

OnError(fs, key) == SaveCsv(fs, EmptyFrame(key), REPORTS[key].prefix)

\* the iteration ends in the except block
IterationFails(key, qs) ==
  /\ files' = OnError(files, key)
  /\ printed' = printed \o << Errored(key), Saved(REPORTS[key].prefix, EmptyFrame(key)) >>
  /\ history' = [history EXCEPT ![REPORTS[key].prefix] =
                   Append(@, [ok |-> FALSE, rows |-> << >>])]
  /\ queries' = qs

\* the iteration ends with save_csv(df, prefix)
IterationSaves(key, df, qs) ==
  /\ files' = SaveCsv(files, df, REPORTS[key].prefix)
  /\ printed' = Append(printed, Saved(REPORTS[key].prefix, df))
  /\ history' = [history EXCEPT ![REPORTS[key].prefix] =
                   Append(@, [ok |-> TRUE, rows |-> df.rows])]
  /\ queries' = qs

IterationFrame ==
  /\ idx' = idx + 1
  /\ UNCHANGED << pc, runs, run_limit, today, probe, ytd, last_rec_date,
                  channel_start, start_override, end_override, keys >>
  /\ UNCHANGED fetchVars

\* REPORTS[key] raises KeyError outside the try: main ends with a traceback
Main_UnknownKey ==
  /\ AtKey
  /\ keys[idx] \notin ReportKeys
  /\ pc' = "crashed"
  /\ UNCHANGED << runs, run_limit, today, probe, ytd, last_rec_date, channel_start,
                  start_override, end_override, keys, idx, files, history,
                  queries, printed >>
  /\ UNCHANGED fetchVars

\* start of the day query: start_override or last_rec_date - 30 days
DayStartIsoLookback31(so, lrd) == Or(so, IsoFormat(lrd - 31))

DayStartIso(so, lrd) == Or(so, IsoFormat(lrd - 30))

\* end of every query: end_override or last_rec_iso
EndIso(eo, lrd) == Or(eo, IsoFormat(lrd))

\* the `else:  # day` branch
Main_Day ==
  /\ AtKey
  /\ keys[idx] \in ReportKeys \ {"top_videos", "country", "traffic_sources"}
  /\ LET key       == keys[idx]
         start_iso == DayStartIso(start_override, last_rec_date)
         end_iso   == EndIso(end_override, last_rec_date)
         qs        == << Query("day", start_iso, end_iso, None, None) >>
     IN  \E resp \in Responses :
           IF resp.ok
             THEN LET df == RunReport(RemoteRows(resp.n, start_iso, end_iso),
                                      REPORTS[key].dims, None)
                  IN  IterationSaves(key, AddColumn(df, "refresh_date", NowPacificIso), qs)
             ELSE IterationFails(key, qs)
  /\ IterationFrame

\* start of the country / traffic_sources query, and the seed of top_videos
LifetimeStartIso(so, cs) == Or(so, IsoFormat(cs))

\* the three metadata columns
WithMetadataSwapped(df, from, lrd, now) ==
  AddColumn(AddColumn(AddColumn(df, "from_date_time", IsoFormat(lrd)),
                      "to_date_time", from),
            "refresh_date", now)

WithMetadata(df, from, lrd, now) ==
  AddColumn(AddColumn(AddColumn(df, "from_date_time", from),
                      "to_date_time", IsoFormat(lrd)),
            "refresh_date", now)

\* the `elif key in {"country", "traffic_sources"}` branch
Main_Aggregate ==
  /\ AtKey
  /\ keys[idx] \in {"country", "traffic_sources"}
  /\ LET key       == keys[idx]
         start_iso == LifetimeStartIso(start_override, channel_start)
         end_iso   == EndIso(end_override, last_rec_date)
         qs        == << Query("aggregate", start_iso, end_iso, None, REPORTS[key].maxres) >>
     IN  \E resp \in Responses :
           IF resp.ok
             THEN LET df == RunReport(RemoteRows(resp.n, start_iso, end_iso),
                                      REPORTS[key].dims, REPORTS[key].maxres)
                  IN  IterationSaves(key, WithMetadata(df, start_iso, last_rec_date, NowPacificIso), qs)
             ELSE IterationFails(key, qs)
  /\ IterationFrame

\* vstart_date = pub_map.get(vid, date(2025, 8, 28))
VideoStartIso(pub, vid) == IsoFormat(Or(pub[vid], FallbackDate))

\* the `for vid in vids` loop: [ok, rows, queries]
RECURSIVE VideoLoop(_, _, _, _, _, _)
VideoLoop(vids, k, pub, resp, lrd, acc) ==
  IF k > Len(vids) THEN acc
  ELSE
    LET vid        == vids[k]
        vstart_iso == VideoStartIso(pub, vid)
        end_iso    == EndIso(end_override, lrd)
        qs         == Append(acc.queries,
                             Query("video", vstart_iso, end_iso, Some(vid), Some(1)))
    IN  IF ~resp[vid].ok
          THEN [ok |-> FALSE, rows |-> acc.rows, queries |-> qs]
          ELSE
            LET remote == [j \in 1..resp[vid].n |->
                             [dim |-> vid, metrics |-> << vstart_iso, end_iso >>]]
                dfv    == RunReport(remote, "video", Some(1))
                out    == IF dfv.rows = << >> THEN dfv
                          ELSE WithMetadata(dfv, vstart_iso, lrd, NowPacificIso)
            IN  VideoLoop(vids, k + 1, pub, resp, lrd,
                          [ok |-> TRUE, rows |-> acc.rows \o out.rows, queries |-> qs])

VideoColumns ==
  << "video", "metrics", "from_date_time", "to_date_time", "refresh_date" >>

\* the `if key == "top_videos"` branch
Main_TopVideos ==
  /\ AtKey
  /\ keys[idx] = "top_videos"
  /\ LET key         == keys[idx]
         broad_start == LifetimeStartIso(start_override, channel_start)
         end_iso     == EndIso(end_override, last_rec_date)
         seed_q      == << Query("seed", broad_start, end_iso, None, Some(MAX_RESULTS)) >>
     IN  \E seed \in SeedResponses :
           IF ~seed.ok THEN IterationFails(key, seed_q)
           ELSE
             LET seed_df == RunReport(RemoteRows(seed.n, broad_start, end_iso),
                                      "video", Some(MAX_RESULTS))
                 vids    == [k \in DOMAIN seed_df.rows |-> seed_df.rows[k].dim]
                 vidSet  == {vids[k] : k \in DOMAIN vids}
             IN  IF seed_df.rows = << >>
                   THEN IterationSaves(key,
                          WithMetadata(seed_df, broad_start, last_rec_date, NowPacificIso),
                          seed_q)
                   ELSE
                     \E pub \in [vidSet -> IF ytd THEN VideoPublishedAnswers ELSE {None}],
                        resp \in [vidSet -> VideoResponses] :
                       LET res == VideoLoop(vids, 1, pub, resp, last_rec_date,
                                            [ok |-> TRUE, rows |-> << >>, queries |-> seed_q])
                       IN  IF ~res.ok THEN IterationFails(key, res.queries)
                           ELSE IF res.rows = << >>
                             THEN IterationSaves(key,
                                    WithMetadata(seed_df, broad_start, last_rec_date, NowPacificIso),
                                    res.queries)
                             ELSE IterationSaves(key,
                                    [columns |-> VideoColumns, rows |-> res.rows],
                                    res.queries)
  /\ IterationFrame

\* the loop is over: print("Done.")
Main_Done ==
  /\ pc = "loop"
  /\ idx > Len(keys)
  /\ pc' = "done"
  /\ printed' = Append(printed, [ev |-> "done", what |-> "", n |-> 0])
  /\ UNCHANGED << runs, run_limit, today, probe, ytd, last_rec_date, channel_start,
                  start_override, end_override, keys, idx, files, history, queries >>
  /\ UNCHANGED fetchVars

FetchIdle ==
  /\ fpc = "idle"
  /\ max_results = None
  /\ remote_n = 0
  /\ start_index = 0
  /\ all_rows = << >>
  /\ requests = << >>

Main_Report == Main_UnknownKey \/ Main_Day \/ Main_Aggregate \/ Main_TopVideos

\* one invocation of main, over every input
Init == MainIdle /\ FetchIdle /\ run_limit = 1

Next == Main_Setup(Todays, StartArgs, EndArgs, ReportArgs) \/ Main_Report \/ Main_Done

Spec == Init /\ [][Next]_vars

\* repeated invocations of main over the same output directory, without
\* overrides and for one report at a time
InitStore == MainIdle /\ FetchIdle /\ run_limit = MaxRuns

StoreReportArgs == {Some(<< k >>) : k \in ReportNames}

NextStore ==
  Main_Setup({Date(2025, 9, 2)}, {None}, {None}, StoreReportArgs) \/ Main_Report \/ Main_Done

SpecStore == InitStore /\ [][NextStore]_vars

(* ------------------------------------------------------------------ *)
(* Properties of run_report (SpecFetch, SpecFetchFair)                  *)
(* ------------------------------------------------------------------ *)
FetchEnded == fpc \in {"returned", "raised"}

\* the rows 1..n of the remote, in order
FirstRows(n) == [k \in 1..n |-> k]

ExpectedRowCount ==
  IF max_results = None THEN remote_n ELSE Min(remote_n, max_results[1])

\* C1: for every cap (or none) and every remote row count the pagination
\* loop ends, and when it returns it has accumulated exactly the first N rows
\* of the remote with no cap, and the first min(N, cap) rows with a cap.
C1_PaginationTerminates ==
  /\ <>FetchEnded
  /\ [](fpc = "returned" => all_rows = FirstRows(ExpectedRowCount))

\* a capped call over more rows than the cap, and an uncapped call of
\* three requests, have returned
C1_Witness ==
  /\ fpc = "returned"
  /\ \/ max_results # None /\ remote_n > max_results[1] /\ Len(all_rows) > 0
     \/ max_results = None /\ Len(requests) = 3 /\ Len(all_rows) > MAX_RESULTS

CountryFetchOf250 ==
  /\ max_results = REPORTS["country"].maxres
  /\ remote_n = 250
  /\ fpc = "returned"

\* C2 as stated: the "country" fetch (cap and page size 200) over 250 remote
\* rows issues exactly 2 requests and returns 250 rows.
C2_Original_TwoRequests250Rows ==
  CountryFetchOf250 => Len(requests) = 2 /\ Len(all_rows) = 250

\* C2 amended: the "country" fetch (cap and page size 200) over 250 remote
\* rows issues exactly 1 request, for rows 1..200, and returns those 200 rows:
\* the full first page already reaches the cap.
C2_CountryFetchStopsAtCap ==
  CountryFetchOf250 =>
    /\ requests = << [startIndex |-> 1, maxResults |-> 200] >>
    /\ all_rows = FirstRows(200)

C2_Witness == CountryFetchOf250 /\ Len(all_rows) = MAX_RESULTS

\* C9: within one call every request asks for the same page size >= 1, the
\* first for start index 1 and the k-th for 1 + (k-1) * page size, so the
\* requested ranges follow one another with no overlap and no gap.
C9_StartIndexAdvancesByPageSize ==
  \A k \in 1..Len(requests) :
    /\ requests[k].maxResults >= 1
    /\ requests[k].maxResults = requests[1].maxResults
    /\ requests[k].startIndex = 1 + (k - 1) * requests[1].maxResults
    /\ k > 1 => /\ requests[k].startIndex > requests[k - 1].startIndex
                /\ requests[k].startIndex =
                     requests[k - 1].startIndex + requests[k - 1].maxResults

C9_Witness == Len(requests) = 3 /\ requests[3].startIndex = 401

(* ------------------------------------------------------------------ *)
(* Properties of main (Spec, SpecStore)                                 *)
(* ------------------------------------------------------------------ *)
KeysInCatalog == \A j \in DOMAIN keys : keys[j] \in ReportKeys

IsSaved(e) == e.ev = "saved"

SavedEvents == SelectSeq(printed, IsSaved)

\* the latest iteration ended in the except block
LastIterationFailed ==
  /\ pc = "loop"
  /\ idx > 1
  /\ Len(printed) >= 2
  /\ printed[Len(printed) - 1] = Errored(keys[idx - 1])

\* the frame is a fetched one: the report's dimension column first, and
\* every row one of this invocation
IsFetchedFrame(key, df) ==
  /\ df.columns # << >>
  /\ df.columns[1] = REPORTS[key].dims
  /\ \A r \in DOMAIN df.rows : df.rows[r].refresh_date = runs

\* C3: in a run over catalog identifiers, whatever queries fail, main never
\* ends with a traceback; the reports are processed in the order requested,
\* each one saving its canonical file once; after a failed iteration the file
\* is the header-only placeholder of the report, after any other the fetched
\* frame; and the loop can always take its next step until it is done.
C3_FailureIsolatedPerReport ==
  (pc # "start" /\ KeysInCatalog) =>
    /\ pc # "crashed"
    /\ Len(SavedEvents) = idx - 1
    /\ \A j \in 1..(idx - 1) :
         /\ SavedEvents[j].what = REPORTS[keys[j]].prefix
         /\ files[REPORTS[keys[j]].prefix] # None
    /\ (pc = "loop" /\ idx > 1) =>
         LET key == keys[idx - 1]
             df  == files[REPORTS[key].prefix][1]
         IN  IF LastIterationFailed
               THEN df = EmptyFrame(key)
               ELSE IsFetchedFrame(key, df)
    /\ (pc = "loop" /\ idx <= Len(keys)) => ENABLED Main_Report
    /\ (pc = "loop" /\ idx > Len(keys)) => ENABLED Main_Done
    /\ pc = "done" => idx = Len(keys) + 1

\* top_videos failed, and the run went on to fetch and save the day report
C3_Witness ==
  /\ pc = "done"
  /\ keys = << "top_videos", "day" >>
  /\ printed[1] = Errored("top_videos")
  /\ files["yta_top_videos"] = Some(EmptyFrame("top_videos"))
  /\ files["yta_daily_trend"] # None
  /\ files["yta_daily_trend"][1].rows # << >>

\* the natural key of a row: the dimension value for the day report, the
\* dimension value and the window columns for the others
NaturalKey(prefix, row) ==
  IF prefix = "yta_daily_trend" THEN << row.dim >>
  ELSE << row.dim, row.from_date_time, row.to_date_time >>

\* all rows the successful iterations of a report saved, oldest first
RECURSIVE AllSavedRows(_)
AllSavedRows(h) ==
  IF h = << >> THEN << >> ELSE AllSavedRows(SubSeq(h, 1, Len(h) - 1)) \o h[Len(h)].rows

\* of those rows, the last one of each natural key
LastPerKey(prefix, rows) ==
  { rows[i] : i \in { i \in DOMAIN rows :
      \A j \in DOMAIN rows :
        NaturalKey(prefix, rows[j]) = NaturalKey(prefix, rows[i]) => j <= i } }

\* C4 as stated: after any sequence of successful runs of a report, its
\* canonical file holds exactly one row per natural key over all rows those
\* runs wrote, the newest row of each key.
C4_Original_FileIsUpsertOfAllRuns ==
  \A p \in Prefixes :
    (history[p] # << >> /\ \A k \in DOMAIN history[p] : history[p][k].ok) =>
      /\ files[p] # None
      /\ LET rows == files[p][1].rows
         IN  /\ {rows[r] : r \in DOMAIN rows} = LastPerKey(p, AllSavedRows(history[p]))
             /\ \A a, b \in DOMAIN rows :
                  NaturalKey(p, rows[a]) = NaturalKey(p, rows[b]) => a = b

\* C5 as stated, for a canonical file that holds rows: whenever a run
\* overwrites it (a run handling a fetch error included), another file of
\* yta_outputs, the backup, holds its previous content afterwards.
C5_Original_BackupBeforeOverwrite ==
  [][ \A p \in Prefixes :
        (files[p] # None /\ files[p][1].rows # << >> /\ files'[p] # files[p]) =>
          \E f \in (DOMAIN files') \ {p} : files'[f] = files[p] ]_vars

OverridesGiven == start_override # None /\ end_override # None

\* C6 as stated: with both overrides given, every query of every report uses
\* exactly the window [start override, end override].
C6_Original_OverridesOnEveryQuery ==
  OverridesGiven =>
    \A k \in DOMAIN queries :
      /\ queries[k].startDate = start_override[1]
      /\ queries[k].endDate = end_override[1]

\* the date latest_analytics_date found, else today - 3 days
LatestOrThreeDaysAgo ==
  IF probe.ok /\ probe.rows # << >>
    THEN probe.rows[Len(probe.rows)]
    ELSE IsoFormat(today - 3)

\* C7: without overrides the day report is queried up to `latest`, the last
\* day of the probe's answer, or today - 3 days when the probe failed or
\* answered no rows, and from 30 days before it (a latest of 2024-03-10 gives
\* the start 2024-02-09, as 2028-03-10 gives 2028-02-09); and the probe's
\* failure does not end the run.
C7_DayWindowIsThirtyDaysToLatest ==
  /\ (KeysInCatalog /\ (~probe.ok \/ probe.rows = << >>)) => pc # "crashed"
  /\ \A k \in DOMAIN queries :
       (queries[k].kind = "day" /\ ~OverridesGiven) =>
         /\ queries[k].endDate = LatestOrThreeDaysAgo
         /\ FromIsoFormat(queries[k].endDate) - FromIsoFormat(queries[k].startDate) = 30
         /\ queries[k].endDate = << 2028, 3, 10 >> =>
              queries[k].startDate = << 2028, 2, 9 >>
         /\ DayStartIso(None, FromIsoFormat(<< 2024, 3, 10 >>)) = << 2024, 2, 9 >>

\* the day report was queried after a probe answering up to 2028-03-10
C7_Witness ==
  /\ ~OverridesGiven
  /\ probe.ok /\ probe.rows # << >>
  /\ \E k \in DOMAIN queries :
       /\ queries[k].kind = "day"
       /\ queries[k].startDate = << 2028, 2, 9 >>
       /\ queries[k].endDate = << 2028, 3, 10 >>

\* order of two ISO dates (the order of their YYYY-MM-DD strings)
IsoLeq(a, b) ==
  \/ a[1] < b[1]
  \/ a[1] = b[1] /\ a[2] < b[2]
  \/ a[1] = b[1] /\ a[2] = b[2] /\ a[3] <= b[3]

\* C8 as stated: every window used for a query has start <= end.
C8_Original_StartNotAfterEnd ==
  \A k \in DOMAIN queries : IsoLeq(queries[k].startDate, queries[k].endDate)

MetadataPrefixes == {"yta_country", "yta_traffic_sources", "yta_top_videos"}

\* the rows of the country, traffic_sources and top_videos files
MetadataRows ==
  UNION { {files[p][1].rows[r] : r \in DOMAIN files[p][1].rows} :
            p \in {q \in MetadataPrefixes : files[q] # None} }

\* C10 as stated: on every row of the country, traffic_sources and top_videos
\* files, from_date_time and to_date_time are the start and the end of the
\* query that produced the row.
C10_Original_MetadataIsQueryWindow ==
  \A row \in MetadataRows :
    /\ row.from_date_time = row.metrics[1]
    /\ row.to_date_time = row.metrics[2]

\* C10 amended: on every such row from_date_time is the start of the query
\* that produced the row, and to_date_time is the latest recorded Analytics
\* day, which is the end of that query whenever no overrides are given.
C10_MetadataFromQueryStartToLatestDay ==
  \A row \in MetadataRows :
    /\ row.from_date_time = row.metrics[1]
    /\ row.to_date_time = IsoFormat(last_rec_date)
    /\ ~OverridesGiven => row.to_date_time = row.metrics[2]

\* with overrides given, a country row was saved whose to_date_time is the
\* latest recorded day and not the end of its query
C10_Witness ==
  /\ OverridesGiven
  /\ files["yta_country"] # None
  /\ \E r \in DOMAIN files["yta_country"][1].rows :
       LET row == files["yta_country"][1].rows[r]
       IN  /\ row.from_date_time = start_override[1]
           /\ row.to_date_time # end_override[1]
           /\ row.metrics[2] = end_override[1]

====
